---- MODULE Spec2Model ----
(***************************************************************************)
(* The proxy validation engine of simple_proxy_collector.py:               *)
(*   test_proxy / test_proxy_async   one probe of one endpoint             *)
(*   validate_proxies_async          the cooperative scheduling loop       *)
(*   validate_proxies                mode selection, fallback, worker pool *)
(* Time is abstracted: a probe may take arbitrarily long, and the wait of  *)
(* the loop may time out whenever no in-flight probe has completed.        *)
(***************************************************************************)
EXTENDS Integers, Sequences, FiniteSets, TLC

\* ------------------------------------------------------------------ bounds
\* Longest candidate sequence handed to validate_proxies.
MaxCandidates == 3
\* CONFIG["async_validator_concurrency"] (50 in the source), scaled down.
async_validator_concurrency == 2
\* CONFIG["validator_workers"] (10 in the source), scaled down.
validator_workers == 2
\* CONFIG["max_response_time"], in seconds.
max_response_time == 5

\* ------------------------------------------------------------ value domains
\* Optional[float]: None is <<>>, a value x is <<x>>.
None == <<>>
Some(x) == <<x>>
\* Python truthiness of an Optional[float]: None and 0.0 are false.
Truthy(rt) == rt # None /\ rt[1] # 0

\* An endpoint string, cut at "://": <<scheme, rest>>, or <<rest>> without scheme.
StartsWith(proxy, scheme) == Len(proxy) >= 2 /\ proxy[1] = scheme
EndpointSeq == << <<"http", "a:1">>, <<"b:2">> >>
Endpoints == { EndpointSeq[k] : k \in DOMAIN EndpointSeq }
\* The candidate sequences: up to MaxCandidates endpoints, with repetitions. No
\* outcome of a probe depends on which endpoint it probes, so one order of each
\* multiset of endpoints is drawn.
CandidateLists ==
    UNION { { [i \in 1..n |-> EndpointSeq[f[i]]] :
                f \in { g \in [1..n -> DOMAIN EndpointSeq] :
                           \A i, j \in 1..n : i <= j => g[i] <= g[j] } } :
            n \in 0..MaxCandidates }

\* What the network gives one request: no response (refused, TLS failure: an
\* Exception; timeout: asyncio.TimeoutError / requests.Timeout) or a response.
Statuses == { 200, 503 }
Bodies == { "text", "number", "object_with_origin", "object_without_origin" }
Latencies == { 0, max_response_time, max_response_time + 1 }
AllResponses ==
    { [kind |-> k, status |-> 0, body |-> "text", latency |-> 0] : k \in {"refused", "timeout"} }
    \cup [kind : {"response"}, status : Statuses, body : Bodies, latency : Latencies]

\* The responses the runs of the engine draw from: one of each kind the loops can
\* tell apart, and the three latencies on a usable one.
Responses ==
    { r \in AllResponses :
        \/ r.kind = "refused"
        \/ r.kind = "response" /\ r.status = 200 /\ r.body = "object_with_origin"
        \/ r.kind = "response" /\ r.latency = max_response_time
                               /\ r.body \in { "text", "object_without_origin" } }

\* Tuple[bool, Optional[float]]
Result(is_valid, response_time) == [is_valid |-> is_valid, response_time |-> response_time]
NoResult == Result(FALSE, None)

\* --------------------------------------------------------------- the probe
\* response.json(): raises on a body that is not JSON.
JsonRaises(body) == body = "text"
\* "origin" in data: raises TypeError on a JSON number, else key membership.
OriginInRaises(body) == body = "number"
OriginIn(body) == body = "object_with_origin"

\* The body check on a 200: <<result>> when a return statement is reached,
\* <<>> when control falls out of the try statement.
BodyCheck(body, response_time) ==
    IF JsonRaises(body) THEN << Result(TRUE, response_time) >>
    ELSE IF OriginInRaises(body) THEN << Result(TRUE, response_time) >>
    ELSE IF OriginIn(body) THEN << Result(TRUE, response_time) >>
    ELSE << >>

\* The handling of a received response (the same text three times in the source).
HandleResponse(resp) ==
    LET response_time == Some(resp.latency)
        checked == IF resp.status = 200 THEN BodyCheck(resp.body, response_time) ELSE << >>
    IN  IF checked # << >> THEN checked[1] ELSE Result(FALSE, response_time)

\* Variant of test_proxy: any 200 is usable, whatever its body holds.
test_proxy_any_200(proxy, resp) ==
    IF resp.kind = "response"
    THEN Result(resp.status = 200, Some(resp.latency))
    ELSE Result(FALSE, None)

test_proxy(proxy, resp) ==
    IF resp.kind = "response" THEN HandleResponse(resp) ELSE Result(FALSE, None)

IsSocks(proxy) == StartsWith(proxy, "socks5") \/ StartsWith(proxy, "socks4")
ProxyUrl(proxy) ==
    IF ~StartsWith(proxy, "http") /\ ~StartsWith(proxy, "https")
    THEN <<"http">> \o proxy
    ELSE proxy
\* The transport a cooperative probe opens, and the URL it is given.
Transport(proxy) ==
    IF IsSocks(proxy)
    THEN [via |-> "ProxyConnector", url |-> proxy]
    ELSE [via |-> "aiohttp_proxy", url |-> ProxyUrl(proxy)]
\* Variant of SocksBranch: a failed request is reported usable, without a latency.
SocksBranchUsableOnFailure(resp) ==
    IF resp.kind = "response" THEN HandleResponse(resp) ELSE Result(TRUE, None)

SocksBranch(resp) ==
    IF resp.kind = "response" THEN HandleResponse(resp) ELSE Result(FALSE, None)
HttpBranch(resp) ==
    IF resp.kind = "response" THEN HandleResponse(resp) ELSE Result(FALSE, None)
\* test_proxy_async once the import has succeeded and the slot is held.
test_proxy_async(proxy, resp) ==
    IF IsSocks(proxy) THEN SocksBranch(resp) ELSE HttpBranch(resp)

\* CancelledError thrown into a probe suspended at `position`: at the acquire and
\* at session.get it propagates (<<>>); at `await response.json()` the bare
\* except catches it and the probe returns True.
CancelPositions == { "get", "json" }
CancelOutcome(position, latency) ==
    IF position = "json" THEN << Result(TRUE, Some(latency)) >> ELSE << >>

\* The acceptance test of both loops.
Accept(res) ==
    res.is_valid /\ Truthy(res.response_time) /\ res.response_time[1] <= max_response_time

\* ------------------------------------------------------------------- state
VARIABLES
    proxies,            \* the argument of validate_proxies
    validation_method,  \* CONFIG["validation_method"]
    aiohttp_available,  \* whether aiohttp and aiohttp_socks can be imported
    pc,                 \* where the caller's thread of control is
    tasks,              \* cooperative mode: the asyncio task of each candidate index
    semaphore,          \* free slots of the asyncio.Semaphore
    pending_tasks,      \* task (by index) -> proxy
    completed_count,
    next_proxy_index,
    futures,            \* worker-pool mode: the future of each candidate index
    completed,
    valid_proxies,
    fallback,           \* history: the fallback to worker-pool mode was taken
    configured,         \* history: validation_method at the call
    qualified,          \* history: indices whose probe, in the mode that runs, returned usable within the bound
    stalled,            \* history: indices cancelled by a stall recovery
    probe,              \* one call of test_proxy / test_proxy_async, probed on its own
    outcome,            \* comparison of the modes: what the network answers the probe of each candidate
    coop_result,        \* comparison of the modes: what the cooperative mode returned
    lines,              \* the values of the resolved counter a status line was printed for
    waited,             \* timing: ticks the current asyncio.wait has been waiting
    elapsed,            \* timing: ticks since the task of each candidate was created, while it executes
    main_pc,            \* main: where the run of main is
    data_file,          \* main: the "proxies" list of the data file
    existing_proxies,   \* main: what load_existing_proxies returned
    new_proxies         \* main: what crawl_proxies returned

vars == << proxies, validation_method, aiohttp_available, pc, tasks, semaphore,
           pending_tasks, completed_count, next_proxy_index, futures, completed,
           valid_proxies, fallback, configured, qualified, stalled, probe, outcome,
           coop_result, lines, waited, elapsed, main_pc, data_file, existing_proxies,
           new_proxies >>

\* The state of main.
main == << main_pc, data_file, existing_proxies, new_proxies >>

\* The state of one call of validate_proxies.
engine_state == << proxies, validation_method, aiohttp_available, pc, tasks, semaphore,
                   pending_tasks, completed_count, next_proxy_index, futures, completed,
                   valid_proxies, fallback, configured, qualified, stalled, outcome,
                   coop_result, lines, waited, elapsed >>

\* The state of the engine.
engine == << proxies, validation_method, aiohttp_available, pc, tasks, semaphore,
             pending_tasks, completed_count, next_proxy_index, futures, completed,
             valid_proxies, fallback, configured, qualified, stalled, outcome,
             coop_result, lines, waited, elapsed, main >>

\* What no step of validate_proxies changes: its argument, the environment, and
\* the state of the specifications that do not run the engine.
fixed == << proxies, aiohttp_available, configured, probe, outcome, coop_result, elapsed, main >>

total == Len(proxies)
Indices == 1..total

Task(st, result, must_cancel) == [st |-> st, result |-> result, must_cancel |-> must_cancel]
TaskDone(t) == t.st \in { "returned", "raised", "cancelled", "harvested", "discarded" }
TaskExecuting(t) == t.st \in { "created", "probing" }
Future(st, result) == [st |-> st, result |-> result]

\* The claim's own reading of a probe result: usable, with a latency within the bound.
Qualifies(res) ==
    res.is_valid /\ res.response_time # None /\ res.response_time[1] <= max_response_time

\* No call of a probe is under way.
ProbeIdle == [st |-> "idle"]

\* An empty pending_tasks dictionary.
NoPending == [t \in {} |-> << >>]

\* The event loop of asyncio.run is running.
LoopRunning == pc \in { "wait", "stall_gather", "exc_gather", "runner_cancel" }

\* The answers are given beforehand only where the two modes are compared.
NoOutcome == << >>

\* validate_proxies is called.
Called ==
    /\ proxies \in CandidateLists
    /\ validation_method \in { "async", "sync" }
    /\ aiohttp_available \in (IF validation_method = "async" THEN BOOLEAN ELSE { TRUE })
    /\ pc = "start"
    /\ tasks = [i \in Indices |-> Task("idle", NoResult, FALSE)]
    /\ semaphore = 0
    /\ pending_tasks = NoPending
    /\ completed_count = 0
    /\ next_proxy_index = 0
    /\ futures = [i \in Indices |-> Future("idle", NoResult)]
    /\ completed = 0
    /\ valid_proxies = << >>
    /\ fallback = FALSE
    /\ configured = validation_method
    /\ qualified = {}
    /\ stalled = {}
    /\ probe = ProbeIdle
    /\ coop_result = None
    /\ lines = {}
    /\ waited = 0
    /\ elapsed = [i \in Indices |-> 0]

\* validate_proxies is called on its own, not by main.
NotFromMain ==
    /\ main_pc = "none"
    /\ data_file = << >>
    /\ existing_proxies = << >>
    /\ new_proxies = << >>

Init == Called /\ outcome = NoOutcome /\ NotFromMain

\* ------------------------------------------------------------------ timing
\* CONFIG["timeout"] (5 seconds in the source), scaled down to ticks of the clock:
\* aiohttp.ClientTimeout(total=CONFIG["timeout"]).
timeout == 2
\* Variant of StallWindow: the wait of the loop lasts one probe timeout.
StallWindowOfOneTimeout == timeout

\* timeout=CONFIG["timeout"] * 2 of asyncio.wait
StallWindow == timeout * 2

\* Variant of NewWait: the loop goes on with the wait it was in.
SameWait(w) == w

\* Each call of asyncio.wait starts its own timeout.
NewWait(w) == 0

\* ------------------------------------------------------- progress display
\* update_interval, chosen by the number of candidates.
update_interval(tot) == IF tot > 10000 THEN 500 ELSE IF tot > 1000 THEN 100 ELSE 50

\* `if completed_count % update_interval == 0 or completed_count == total`
StatusLine(count, tot) == count % update_interval(tot) = 0 \/ count = tot

\* The counter is incremented n times from `count`, the condition of the status
\* line tested after each increment: the values a line is printed for.
Printed(count, n) == { c \in (count + 1)..(count + n) : StatusLine(c, total) }

\* ------------------------------------------------------- cooperative mode
\* Variant of IsException: a bare except, which takes an interruption too.
IsExceptionBare(exc) == TRUE

\* What is raised: ImportError by a probe without aiohttp, some other Exception
\* inside the loop, KeyboardInterrupt / CancelledError by an interruption.
\* `except Exception` catches the first two and not the last.
IsException(exc) == exc \in { "ImportError", "Exception" }

\* Variant of CanAdmit: the ceiling compared with <= instead of <.
CanAdmitOffByOne(pending, next) ==
    next < total /\ Cardinality(DOMAIN pending) <= async_validator_concurrency

\* The condition of the three admission loops.
CanAdmit(pending, next) ==
    next < total /\ Cardinality(DOMAIN pending) < async_validator_concurrency

\* Variant of Admitted: the URL built for the request is kept instead of the proxy.
AdmittedRewritten(next) == ProxyUrl(proxies[next + 1])

\* proxy = proxies[next_proxy_index]: what pending_tasks keeps for the new task
\* (Python counts from 0, the sequence from 1).
Admitted(next) == proxies[next + 1]

\* Variant of Advance: the cursor passes over a candidate.
AdvanceSkipping(next) == next + 2

\* next_proxy_index += 1
Advance(next) == next + 1

\* The admission loop: <<pending_tasks, next_proxy_index>> after it.
RECURSIVE Fill(_, _)
Fill(pending, next) ==
    IF CanAdmit(pending, next)
    THEN Fill([t \in DOMAIN pending \cup {next + 1} |->
                 IF t = next + 1 THEN Admitted(next) ELSE pending[t]], Advance(next))
    ELSE << pending, next >>

\* create_task for the indices admitted by one admission loop.
Created(old, new) ==
    [i \in Indices |-> IF i \in new THEN Task("created", NoResult, FALSE) ELSE old[i]]

\* Variant of Capacity: the limiter has one slot less than the window.
CapacityBelowWindow == async_validator_concurrency - 1

\* asyncio.Semaphore(CONFIG["async_validator_concurrency"])
Capacity == async_validator_concurrency

\* Variant of Released: the slot stays held when the probe ends.
ReleasedNever(sem) == sem

\* The exit of `async with semaphore`, on whatever path the probe ends.
Released(sem) == sem + 1

\* Variant of EmptyResult: the call without candidates returns an endpoint.
EmptyResultNotEmpty == << EndpointSeq[1] >>

\* `if total == 0: return []`
EmptyResult == << >>

\* validate_proxies, async configured: asyncio.run(validate_proxies_async(proxies))
\* up to its first await.
AsyncStart ==
    /\ pc = "start"
    /\ validation_method = "async"
    /\ IF total = 0
       THEN /\ pc' = "done"
            /\ valid_proxies' = EmptyResult
            /\ UNCHANGED << tasks, semaphore, pending_tasks, next_proxy_index >>
       ELSE LET f == Fill(NoPending, 0)
            IN  /\ semaphore' = Capacity
                /\ pending_tasks' = f[1]
                /\ next_proxy_index' = f[2]
                /\ tasks' = Created(tasks, DOMAIN f[1])
                /\ pc' = IF DOMAIN f[1] = {} THEN "done" ELSE "wait"
                /\ UNCHANGED valid_proxies
    /\ waited' = NewWait(waited)
    /\ UNCHANGED << fixed, lines, validation_method, completed_count, futures, completed, fallback,
                    qualified, stalled >>

\* The first step of a created task: the import, then the acquire of the slot.
TaskStart(i) ==
    /\ LoopRunning
    /\ tasks[i].st = "created"
    /\ ~tasks[i].must_cancel
    /\ IF ~aiohttp_available
       THEN /\ tasks' = [tasks EXCEPT ![i] = Task("raised", NoResult, FALSE)]
            /\ UNCHANGED semaphore
       ELSE /\ semaphore > 0
            /\ semaphore' = semaphore - 1
            /\ tasks' = [tasks EXCEPT ![i] = Task("probing", NoResult, FALSE)]
    /\ UNCHANGED << fixed, lines, waited, validation_method, pc, pending_tasks, completed_count,
                    next_proxy_index, futures, completed, valid_proxies, fallback, qualified,
                    stalled >>

\* A probe's request ends (response, failure or its own timeout): the probe
\* returns its result and leaves `async with semaphore`.
TaskFinish(i, resp) ==
    /\ LoopRunning
    /\ tasks[i].st = "probing"
    /\ ~tasks[i].must_cancel
    /\ LET res == test_proxy_async(proxies[i], resp)
       IN  /\ tasks' = [tasks EXCEPT ![i] = Task("returned", res, FALSE)]
           /\ qualified' = IF Qualifies(res) THEN qualified \cup {i} ELSE qualified
    /\ semaphore' = Released(semaphore)
    /\ UNCHANGED << fixed, lines, waited, validation_method, pc, pending_tasks, completed_count,
                    next_proxy_index, futures, completed, valid_proxies, fallback, stalled >>

\* A task whose cancellation was requested runs again: CancelledError is thrown
\* at the await it is suspended at.
TaskCancelled(i, position, latency) ==
    /\ LoopRunning
    /\ tasks[i].must_cancel
    /\ TaskExecuting(tasks[i])
    /\ IF tasks[i].st = "created"
       THEN /\ tasks' = [tasks EXCEPT ![i] = Task("cancelled", NoResult, FALSE)]
            /\ UNCHANGED << semaphore, qualified >>
       ELSE LET out == CancelOutcome(position, latency)
            IN  /\ tasks' = [tasks EXCEPT ![i] =
                        IF out = << >> THEN Task("cancelled", NoResult, FALSE)
                        ELSE Task("returned", out[1], FALSE)]
                /\ qualified' = IF out # << >> /\ Qualifies(out[1])
                                THEN qualified \cup {i} ELSE qualified
                /\ semaphore' = Released(semaphore)
    /\ UNCHANGED << fixed, lines, waited, validation_method, pc, pending_tasks, completed_count,
                    next_proxy_index, futures, completed, valid_proxies, fallback, stalled >>

\* asyncio.wait: the tasks of pending_tasks that are done when the loop resumes.
DoneTasks == { t \in DOMAIN pending_tasks : TaskDone(tasks[t]) }
\* Every created task has run its first step before the loop resumes.
AllStarted == \A t \in DOMAIN pending_tasks : tasks[t].st # "created"

\* The orders in which `for task in done` may visit the set.
Orders(S) ==
    { o \in [1..Cardinality(S) -> S] : \A a, b \in 1..Cardinality(S) : a # b => o[a] # o[b] }

\* task.result() of a done task, and the test on it: whether proxy is appended.
Appends(t) == t.st = "returned" /\ Accept(t.result)

\* The handlers around task.result(): `except asyncio.CancelledError: pass`, then
\* `except Exception: pass`, which also takes the ImportError of a probe.
HarvestCatches(exc) == exc = "CancelledError" \/ IsException(exc)
\* Some harvested task's exception passes both handlers.
Escapes(done) == \E t \in done : tasks[t].st = "raised" /\ ~HarvestCatches("ImportError")

\* valid_proxies after the harvest of the tasks of `order`, from its k-th on.
RECURSIVE Harvest(_, _, _)
Harvest(order, k, valid) ==
    IF k > Len(order) THEN valid
    ELSE Harvest(order, k + 1,
                 IF Appends(tasks[order[k]])
                 THEN Append(valid, pending_tasks[order[k]])
                 ELSE valid)

\* pending_tasks without the tasks of S.
Popped(pending, S) == [t \in DOMAIN pending \ S |-> pending[t]]

\* Variant of CancelAll: no cancellation is requested.
CancelNone(S) == tasks

\* task.cancel() on every task of S that is not done.
CancelAll(S) ==
    [i \in Indices |->
        IF i \in S /\ ~TaskDone(tasks[i])
        THEN Task(tasks[i].st, tasks[i].result, TRUE)
        ELSE tasks[i]]

\* Variant of GatherDone: the cancelled tasks are not awaited.
GatherNoWait(S) == TRUE

\* await asyncio.gather(*S, return_exceptions=True) returns: every task of S is done.
GatherDone(S) == \A t \in S : TaskDone(tasks[t])

\* The wait returns with completed tasks: the harvest, then the top-up. An
\* exception that the handlers of the harvest let through goes to the handler of
\* the loop, which cancels what is left and awaits it.
WaitDone(order) ==
    /\ pc = "wait"
    /\ AllStarted
    /\ DoneTasks # {}
    /\ order \in Orders(DoneTasks)
    /\ IF Escapes(DoneTasks)
       THEN /\ tasks' = CancelAll(DOMAIN pending_tasks)
            /\ pc' = "exc_gather"
            /\ UNCHANGED << valid_proxies, completed_count, pending_tasks, next_proxy_index,
                            lines, waited >>
       ELSE LET f == Fill(Popped(pending_tasks, DoneTasks), next_proxy_index)
            IN  /\ valid_proxies' = Harvest(order, 1, valid_proxies)
                /\ completed_count' = completed_count + Len(order)
                /\ pending_tasks' = f[1]
                /\ next_proxy_index' = f[2]
                /\ tasks' = [i \in Indices |->
                               IF i \in DoneTasks THEN Task("harvested", NoResult, FALSE)
                               ELSE IF i \in DOMAIN f[1] \ DOMAIN pending_tasks
                                    THEN Task("created", NoResult, FALSE)
                                    ELSE tasks[i]]
                /\ pc' = IF DOMAIN f[1] = {} THEN "done" ELSE "wait"
                /\ lines' = lines \cup Printed(completed_count, Len(order))
                /\ waited' = NewWait(waited)
    /\ UNCHANGED << fixed, validation_method, semaphore, futures, completed, fallback,
                    qualified, stalled >>

\* The wait times out with no task done: every in-flight task is cancelled and
\* the loop awaits the gather of them.
Stall ==
    /\ pc = "wait"
    /\ AllStarted
    /\ DoneTasks = {}
    /\ tasks' = CancelAll(DOMAIN pending_tasks)
    /\ pc' = "stall_gather"
    /\ UNCHANGED << fixed, lines, waited, validation_method, semaphore, pending_tasks, completed_count,
                    next_proxy_index, futures, completed, valid_proxies, fallback, qualified,
                    stalled >>

\* Variant of ResumeFrom: admission goes back to the cancelled candidates.
ResumeFromCancelled(next, cancelled) == next - Cardinality(cancelled)

\* "Re-add tasks, from the current index": where admission resumes after a stall.
ResumeFrom(next, cancelled) == next

\* Variant of Cleared: the cancelled tasks stay in pending_tasks.
NotCleared(pending) == pending

\* pending_tasks.clear()
Cleared(pending) == NoPending

\* Variant of Counted: the cancelled tasks are not counted.
CountedNone(cancelled) == 0

\* completed_count += len(cancelled_tasks)
Counted(cancelled) == Cardinality(cancelled)

\* The gather returns: the cancelled tasks are counted, pending_tasks is cleared
\* and admission resumes from next_proxy_index. A finished task that is no
\* longer in pending_tasks is never looked at again.
StallRecover ==
    /\ pc = "stall_gather"
    /\ GatherDone(DOMAIN pending_tasks)
    /\ LET f == Fill(Cleared(pending_tasks), ResumeFrom(next_proxy_index, DOMAIN pending_tasks))
       IN  /\ completed_count' = completed_count + Counted(DOMAIN pending_tasks)
           /\ pending_tasks' = f[1]
           /\ next_proxy_index' = f[2]
           /\ tasks' = [i \in Indices |->
                          IF i \in DOMAIN f[1] \ DOMAIN pending_tasks
                          THEN Task("created", NoResult, FALSE)
                          ELSE IF i \in DOMAIN pending_tasks \ DOMAIN f[1] /\ TaskDone(tasks[i])
                               THEN Task("discarded", NoResult, FALSE)
                               ELSE tasks[i]]
           /\ pc' = IF DOMAIN f[1] = {} THEN "done" ELSE "wait"
    /\ stalled' = stalled \cup DOMAIN pending_tasks
    /\ waited' = NewWait(waited)
    /\ UNCHANGED << fixed, lines, validation_method, semaphore, futures, completed, valid_proxies,
                    fallback, qualified >>

\* The event loop is closed and the coroutine of validate_proxies_async is gone:
\* its locals and its finished tasks no longer exist. A task that had not ended
\* would still be what it was.
Closed(ts) ==
    [i \in Indices |-> IF TaskExecuting(ts[i]) THEN ts[i] ELSE Task("idle", NoResult, FALSE)]

\* An exception other than an interruption is raised inside the loop's try
\* statement (a failing print, a runtime error): the handler cancels what is
\* left in pending_tasks and awaits the gather of it.
LoopException ==
    /\ pc = "wait"
    /\ tasks' = CancelAll(DOMAIN pending_tasks)
    /\ pc' = "exc_gather"
    /\ UNCHANGED << fixed, lines, waited, validation_method, semaphore, pending_tasks, completed_count,
                    next_proxy_index, futures, completed, valid_proxies, fallback, qualified,
                    stalled >>

\* Variant of Submitted: only the candidates the cooperative run had not
\* admitted are submitted.
SubmittedFromCursor ==
    [i \in Indices |->
        IF i > next_proxy_index THEN Future("queued", NoResult) ELSE Future("yielded", NoResult)]

\* executor.submit for every proxy: the futures of the worker pool.
Submitted == [i \in Indices |-> Future("queued", NoResult)]

\* validate_proxies catches what asyncio.run raised, sets validation_method to
\* "sync" and enters the worker-pool section: the pool is created and every proxy
\* submitted. The locals of the cooperative run are gone.
FallbackToSync ==
    /\ validation_method' = "sync"
    /\ fallback' = TRUE
    /\ valid_proxies' = << >>
    /\ futures' = Submitted
    /\ completed' = 0
    /\ pc' = IF total = 0 THEN "done" ELSE "sync_run"
    /\ tasks' = Closed(tasks)
    /\ semaphore' = 0
    /\ pending_tasks' = NoPending
    /\ completed_count' = 0
    /\ next_proxy_index' = 0
    /\ qualified' = {}
    /\ stalled' = {}
    /\ lines' = {}
    /\ waited' = 0
    /\ UNCHANGED << fixed >>

\* The gather of the loop's handler returns and the handler re-raises; asyncio.run
\* ends; validate_proxies catches the exception and falls back.
ExceptionFallback ==
    /\ pc = "exc_gather"
    /\ GatherDone(DOMAIN pending_tasks)
    /\ FallbackToSync

\* An external interruption while asyncio.run is running. The loop's
\* `except Exception` does not take it; asyncio.run cancels every task that is
\* left and runs the event loop until all of them are done.
InterruptAsync ==
    /\ pc \in { "wait", "stall_gather", "exc_gather" }
    /\ tasks' = CancelAll(Indices)
    /\ pc' = "runner_cancel"
    /\ UNCHANGED << fixed, lines, waited, validation_method, semaphore, pending_tasks, completed_count,
                    next_proxy_index, futures, completed, valid_proxies, fallback, qualified,
                    stalled >>

\* asyncio.run has run the event loop until no task is left.
RunnerDrained == \A i \in Indices : ~TaskExecuting(tasks[i])

\* asyncio.run raises the interruption into validate_proxies, whose except clauses
\* (ImportError, Exception) decide: caught, the run falls back; else it propagates.
RunnerExit ==
    /\ pc = "runner_cancel"
    /\ RunnerDrained
    /\ IF IsException("KeyboardInterrupt")
       THEN FallbackToSync
       ELSE /\ pc' = "interrupted"
            /\ tasks' = Closed(tasks)
            /\ UNCHANGED << fixed, lines, waited, validation_method, semaphore, pending_tasks,
                            completed_count, next_proxy_index, futures, completed,
                            valid_proxies, fallback, qualified, stalled >>

\* ------------------------------------------------------- worker-pool mode
\* validate_proxies, sync configured: the pool is created and every proxy submitted.
SyncStart ==
    /\ pc = "start"
    /\ validation_method = "sync"
    /\ valid_proxies' = << >>
    /\ futures' = Submitted
    /\ completed' = 0
    /\ pc' = IF total = 0 THEN "done" ELSE "sync_run"
    /\ UNCHANGED << fixed, lines, waited, validation_method, tasks, semaphore, pending_tasks,
                    completed_count, next_proxy_index, fallback, qualified, stalled >>

PoolRunning == pc \in { "sync_run", "sync_shutdown" }
Running == { i \in Indices : futures[i].st = "running" }
Queued == { i \in Indices : futures[i].st = "queued" }

\* A worker thread takes the oldest work item of the queue; the pool has at most
\* validator_workers threads.
WorkerAvailable == Cardinality(Running) < validator_workers
WorkerTake(i) ==
    /\ PoolRunning
    /\ i \in Queued
    /\ \A j \in Queued : i <= j
    /\ WorkerAvailable
    /\ futures' = [futures EXCEPT ![i] = Future("running", NoResult)]
    /\ UNCHANGED << fixed, lines, waited, validation_method, pc, tasks, semaphore, pending_tasks,
                    completed_count, next_proxy_index, completed, valid_proxies, fallback,
                    qualified, stalled >>

\* test_proxy returns in a worker thread.
WorkerFinish(i, resp) ==
    /\ PoolRunning
    /\ futures[i].st = "running"
    /\ LET res == test_proxy(proxies[i], resp)
       IN  /\ futures' = [futures EXCEPT ![i] = Future("finished", res)]
           /\ qualified' = IF Qualifies(res) THEN qualified \cup {i} ELSE qualified
    /\ UNCHANGED << fixed, lines, waited, validation_method, pc, tasks, semaphore, pending_tasks,
                    completed_count, next_proxy_index, completed, valid_proxies, fallback,
                    stalled >>

\* One iteration of `for future in as_completed(futures)`; after the last one the
\* with statement ends and valid_proxies is returned.
Consume(i) ==
    /\ pc = "sync_run"
    /\ futures[i].st = "finished"
    /\ completed' = completed + 1
    /\ valid_proxies' = IF Accept(futures[i].result)
                        THEN Append(valid_proxies, proxies[i])
                        ELSE valid_proxies
    /\ futures' = [futures EXCEPT ![i] = Future("yielded", NoResult)]
    /\ pc' = IF \A j \in Indices \ {i} : futures[j].st = "yielded" THEN "done" ELSE "sync_run"
    /\ lines' = lines \cup Printed(completed, 1)
    /\ UNCHANGED << fixed, waited, validation_method, tasks, semaphore, pending_tasks,
                    completed_count, next_proxy_index, fallback, qualified, stalled >>

\* An external interruption in the main thread: it leaves the for loop and the
\* with statement calls executor.shutdown(wait=True).
InterruptSync ==
    /\ pc = "sync_run"
    /\ pc' = "sync_shutdown"
    /\ UNCHANGED << fixed, lines, waited, validation_method, tasks, semaphore, pending_tasks,
                    completed_count, next_proxy_index, futures, completed, valid_proxies,
                    fallback, qualified, stalled >>

\* Variant of PoolDrained: shutdown(wait=False), the workers are not joined.
PoolNotJoined == TRUE

\* executor.shutdown(wait=True), called as the with statement is left, returns:
\* the workers have run every queued item and have been joined.
PoolDrained == \A i \in Indices : futures[i].st \in { "finished", "yielded" }

\* The interruption leaves validate_proxies.
ShutdownExit ==
    /\ pc = "sync_shutdown"
    /\ PoolDrained
    /\ pc' = "interrupted"
    /\ UNCHANGED << fixed, lines, waited, validation_method, tasks, semaphore, pending_tasks,
                    completed_count, next_proxy_index, futures, completed, valid_proxies,
                    fallback, qualified, stalled >>

\* ---------------------------------------------------------- specification
TaskStep ==
    \E i \in Indices :
        \/ TaskStart(i)
        \/ \E resp \in Responses : TaskFinish(i, resp)
        \/ \E position \in CancelPositions, latency \in Latencies :
               TaskCancelled(i, position, latency)

WorkerStep ==
    \E i \in Indices :
        \/ WorkerTake(i)
        \/ \E resp \in Responses : WorkerFinish(i, resp)

Harvesting == \E order \in Orders(DoneTasks) : WaitDone(order)
Consuming == \E i \in Indices : Consume(i)

Next ==
    \/ AsyncStart
    \/ TaskStep
    \/ Harvesting
    \/ Stall
    \/ StallRecover
    \/ LoopException
    \/ ExceptionFallback
    \/ InterruptAsync
    \/ RunnerExit
    \/ SyncStart
    \/ WorkerStep
    \/ Consuming
    \/ InterruptSync
    \/ ShutdownExit

Spec == Init /\ [][Next]_vars

\* -------------------------------------------------- one probe on its own
\* The endpoints a probe is called with: every scheme of the data model, and one
\* endpoint without a scheme.
ProbeEndpoints ==
    Endpoints \cup { <<"https", "c:3">>, <<"socks4", "d:4">>, <<"socks5", "e:5">>,
                     <<"socks5h", "f:6">> }
ProbeFunctions == { "test_proxy", "test_proxy_async" }

\* A probe is called; the network will answer its request with resp.
ProbeCall(fn, proxy, resp) ==
    /\ probe.st = "idle"
    /\ probe' = [st |-> "called", fn |-> fn, proxy |-> proxy, resp |-> resp]
    /\ UNCHANGED engine

\* The call ends on its own: test_proxy returns; test_proxy_async raises
\* ImportError without aiohttp, and else returns.
ProbeReturn ==
    /\ probe.st = "called"
    /\ probe' =
         IF probe.fn = "test_proxy"
         THEN [st |-> "returned", fn |-> probe.fn, proxy |-> probe.proxy, resp |-> probe.resp,
               result |-> test_proxy(probe.proxy, probe.resp),
               transport |-> [via |-> "requests", url |-> probe.proxy]]
         ELSE IF ~aiohttp_available
         THEN [st |-> "raised", fn |-> probe.fn, proxy |-> probe.proxy, resp |-> probe.resp,
               exc |-> "ImportError"]
         ELSE [st |-> "returned", fn |-> probe.fn, proxy |-> probe.proxy, resp |-> probe.resp,
               result |-> test_proxy_async(probe.proxy, probe.resp),
               transport |-> Transport(probe.proxy)]
    /\ UNCHANGED engine

\* The task of a cooperative probe is cancelled while it is suspended at
\* `position`; it can be at `await response.json()` only after a 200.
ProbeCancel(position) ==
    /\ probe.st = "called"
    /\ probe.fn = "test_proxy_async"
    /\ aiohttp_available
    /\ position = "json" => probe.resp.kind = "response" /\ probe.resp.status = 200
    /\ LET out == CancelOutcome(position, probe.resp.latency)
       IN  probe' =
             IF out = << >>
             THEN [st |-> "raised", fn |-> probe.fn, proxy |-> probe.proxy,
                   resp |-> probe.resp, exc |-> "CancelledError"]
             ELSE [st |-> "returned", fn |-> probe.fn, proxy |-> probe.proxy,
                   resp |-> probe.resp, result |-> out[1],
                   transport |-> Transport(probe.proxy)]
    /\ UNCHANGED engine

InitProbe == Init /\ proxies = << >> /\ validation_method = "async"
Calling ==
    \E fn \in ProbeFunctions, proxy \in ProbeEndpoints, resp \in AllResponses :
        ProbeCall(fn, proxy, resp)
Cancelling == \E position \in CancelPositions : ProbeCancel(position)
NextProbe ==
    \/ Calling
    \/ ProbeReturn
    \/ Cancelling
ProbeSpec == InitProbe /\ [][NextProbe]_vars

\* The cooperative loop on its own, undisturbed: no interruption, no exception
\* in the loop. The wait of the loop returns when a task is done and times out
\* when none is; a created task starts; a task whose cancellation is requested
\* ends. Nothing makes a probe's request end.
InitCoop == Init /\ validation_method = "async"
NextCoop ==
    \/ AsyncStart
    \/ TaskStep
    \/ Harvesting
    \/ Stall
    \/ StallRecover
CoopFairness ==
    /\ WF_vars(AsyncStart)
    /\ WF_vars(Harvesting)
    /\ WF_vars(Stall)
    /\ WF_vars(StallRecover)
    /\ WF_vars(\E i \in Indices : TaskStart(i))
    /\ WF_vars(\E i \in Indices, position \in CancelPositions, latency \in Latencies :
                  TaskCancelled(i, position, latency))
CoopSpec == InitCoop /\ [][NextCoop]_vars /\ CoopFairness

\* The cooperative loop when nothing is known of a cancelled probe: the loop
\* and the first step of a task are scheduled as before; a task whose
\* cancellation is requested may end, and may as well never end.
LoopFairness ==
    /\ WF_vars(AsyncStart)
    /\ WF_vars(Harvesting)
    /\ WF_vars(Stall)
    /\ WF_vars(StallRecover)
    /\ WF_vars(\E i \in Indices : TaskStart(i))
GraceSpec == InitCoop /\ [][NextCoop]_vars /\ LoopFairness

\* ------------------------------------------- the two modes on the same input
\* validate_proxies is called with validation_method "async" and, once it has
\* returned, again with "sync", on the same candidates; the network answers the
\* probe of a candidate the same way both times. No stall, no interruption.
GivenResponses ==
    { r \in Responses :
        \/ r.kind = "refused"
        \/ r.status = 200 /\ r.body = "object_with_origin" /\ r.latency <= max_response_time
        \/ r.status = 200 /\ r.body = "object_without_origin" }
InitBoth ==
    /\ Called
    /\ NotFromMain
    /\ validation_method = "async"
    /\ outcome \in [Indices -> GivenResponses]

Starting == \E i \in Indices : TaskStart(i)
FinishAsGiven == \E i \in Indices : TaskFinish(i, outcome[i])
Taking == \E i \in Indices : WorkerTake(i)
WorkAsGiven == \E i \in Indices : WorkerFinish(i, outcome[i])

\* The cooperative call has returned; its result is kept and the call is made
\* again with CONFIG["validation_method"] = "sync".
CallSync ==
    /\ pc = "done"
    /\ validation_method = "async"
    /\ coop_result = None
    /\ coop_result' = Some(valid_proxies)
    /\ validation_method' = "sync"
    /\ pc' = "start"
    /\ tasks' = Closed(tasks)
    /\ semaphore' = 0
    /\ pending_tasks' = NoPending
    /\ completed_count' = 0
    /\ next_proxy_index' = 0
    /\ valid_proxies' = << >>
    /\ qualified' = {}
    /\ lines' = {}
    /\ UNCHANGED << proxies, aiohttp_available, configured, probe, outcome, futures, waited, elapsed, main,
                    completed, fallback, stalled >>

NextBoth ==
    \/ AsyncStart
    \/ Starting
    \/ FinishAsGiven
    \/ Harvesting
    \/ CallSync
    \/ SyncStart
    \/ Taking
    \/ WorkAsGiven
    \/ Consuming
BothSpec == InitBoth /\ [][NextBoth]_vars

\* ------------------------------------------------ the cooperative loop in time
\* The cooperative loop with a clock. Time passes while the loop is
\* suspended in asyncio.wait with no task done (a done task ends the wait, and
\* the steps of the loop take no time); a ready task runs before time passes.
Later(t) == IF t < StallWindow THEN t + 1 ELSE StallWindow
Tick ==
    /\ pc = "wait"
    /\ AllStarted
    /\ DoneTasks = {}
    /\ waited < StallWindow
    /\ waited' = waited + 1
    /\ elapsed' = [i \in Indices |-> IF TaskExecuting(tasks[i]) THEN Later(elapsed[i]) ELSE 0]
    /\ UNCHANGED << proxies, validation_method, aiohttp_available, pc, tasks, semaphore,
                    pending_tasks, completed_count, next_proxy_index, futures, completed,
                    valid_proxies, fallback, configured, qualified, stalled, probe, outcome,
                    coop_result, lines, main >>

\* The timeout of asyncio.wait expires.
TimedStall == waited = StallWindow /\ Stall

\* What a request can end with, its own timeout included; the timeout of a
\* probe expires `timeout` ticks after its start, or later if the probe hangs.
TimedResponses ==
    { r \in AllResponses :
        \/ r.kind = "timeout"
        \/ r.kind = "response" /\ r.status = 200 /\ r.body = "object_with_origin"
                               /\ r.latency = max_response_time }
TimedFinish(i, resp) ==
    /\ resp.kind = "timeout" => elapsed[i] >= timeout
    /\ TaskFinish(i, resp)
TimedFinishing == \E i \in Indices, resp \in TimedResponses : TimedFinish(i, resp)
TaskCancelling ==
    \E i \in Indices, position \in CancelPositions :
        TaskCancelled(i, position, max_response_time)

NextTimed ==
    \/ AsyncStart
    \/ Starting
    \/ TimedFinishing
    \/ TaskCancelling
    \/ Harvesting
    \/ Tick
    \/ TimedStall
    \/ StallRecover
TimedSpec == InitCoop /\ [][NextTimed]_vars

\* -------------------------------------------------------------------- main
\* The elements of a list.
Elements(seq) == { seq[k] : k \in DOMAIN seq }

\* list(set(...)): each element once, in any order.
ListsOfSet(S) ==
    { l \in [1..Cardinality(S) -> S] : \A i, j \in 1..Cardinality(S) : l[i] = l[j] => i = j }

\* What the data file can hold when main starts: nothing (no file, or one that
\* does not load), or a list that save_proxies wrote.
StoredLists == UNION { ListsOfSet(S) : S \in SUBSET Endpoints }

\* What crawl_proxies can return: unique_proxies = list(set(all_proxies)).
CrawledLists == UNION { ListsOfSet(S) : S \in SUBSET Endpoints }

\* existing_proxies = load_existing_proxies()
MainLoad ==
    /\ main_pc = "start"
    /\ existing_proxies' = data_file
    /\ main_pc' = "loaded"
    /\ UNCHANGED << engine_state, probe, data_file, new_proxies >>

\* new_proxies = crawl_proxies(); main returns if the list is empty.
MainCrawl ==
    /\ main_pc = "loaded"
    /\ \E crawled \in CrawledLists :
           /\ Len(crawled) + Len(existing_proxies) <= MaxCandidates
           /\ new_proxies' = crawled
           /\ main_pc' = IF crawled = << >> THEN "returned" ELSE "crawled"
    /\ UNCHANGED << engine_state, probe, data_file, existing_proxies >>

\* The argument main gives validate_proxies.
Handed(new, existing) == new \o existing

\* validate_proxies(new_proxies+existing_proxies) is called.
MainValidate ==
    /\ main_pc = "crawled"
    /\ proxies' = Handed(new_proxies, existing_proxies)
    /\ tasks' = [i \in 1..Len(proxies') |-> Task("idle", NoResult, FALSE)]
    /\ futures' = [i \in 1..Len(proxies') |-> Future("idle", NoResult)]
    /\ elapsed' = [i \in 1..Len(proxies') |-> 0]
    /\ main_pc' = "validating"
    /\ UNCHANGED << validation_method, aiohttp_available, pc, semaphore, pending_tasks,
                    completed_count, next_proxy_index, completed, valid_proxies, fallback,
                    configured, qualified, stalled, probe, outcome, coop_result, lines,
                    waited, data_file, existing_proxies, new_proxies >>

\* validate_proxies runs.
MainEngine == main_pc = "validating" /\ Next

\* An external interruption of validate_proxies leaves main; nothing is saved.
MainInterrupted ==
    /\ main_pc = "validating"
    /\ pc = "interrupted"
    /\ main_pc' = "interrupted"
    /\ UNCHANGED << engine_state, probe, data_file, existing_proxies, new_proxies >>

\* Variant of MergeArgument: main merges the result into the stored list.
MergeArgumentStored(existing) == existing

\* The second argument of the call of merge_proxies in main.
MergeArgument(existing) == << >>

\* all_proxies = list(set(existing_proxies + new_proxies))
merge_proxies(new, existing) == ListsOfSet(Elements(existing \o new))

\* validate_proxies has returned: main returns if the result is empty, else it
\* merges and save_proxies writes the file.
MainSave ==
    /\ main_pc = "validating"
    /\ pc = "done"
    /\ IF valid_proxies = << >>
       THEN UNCHANGED data_file
       ELSE \E all_proxies \in merge_proxies(valid_proxies, MergeArgument(existing_proxies)) :
                data_file' = all_proxies
    /\ main_pc' = "returned"
    /\ UNCHANGED << engine_state, probe, existing_proxies, new_proxies >>

\* save_proxies raises: open() fails and the file is as it was, or the write
\* fails after open() truncated it and the file no longer loads.
MainSaveFails ==
    /\ main_pc = "validating"
    /\ pc = "done"
    /\ valid_proxies # << >>
    /\ data_file' \in { data_file, << >> }
    /\ main_pc' = "failed"
    /\ UNCHANGED << engine_state, probe, existing_proxies, new_proxies >>

InitMain ==
    /\ Called
    /\ proxies = << >>
    /\ outcome = NoOutcome
    /\ main_pc = "start"
    /\ data_file \in StoredLists
    /\ existing_proxies = << >>
    /\ new_proxies = << >>

NextMain ==
    \/ MainLoad
    \/ MainCrawl
    \/ MainValidate
    \/ MainEngine
    \/ MainInterrupted
    \/ MainSave
    \/ MainSaveFails

MainSpec == InitMain /\ [][NextMain]_vars

Terminated == pc \in { "done", "interrupted" }

TypeOK ==
    /\ proxies \in CandidateLists
    /\ validation_method \in { "async", "sync" }
    /\ pc \in { "start", "wait", "stall_gather", "exc_gather", "runner_cancel",
                "sync_run", "sync_shutdown", "done", "interrupted" }
    /\ semaphore \in 0..async_validator_concurrency
    /\ DOMAIN pending_tasks \subseteq Indices
    /\ completed_count \in 0..total
    /\ next_proxy_index \in 0..total
    /\ completed \in 0..total
    /\ qualified \subseteq Indices
    /\ stalled \subseteq Indices
    /\ lines \subseteq 1..total
    /\ waited \in 0..StallWindow
    /\ elapsed \in [Indices -> 0..StallWindow]

\* ------------------------------------------------------------------ claims
\* The cooperative probes that have not ended (cancellation requested or not).
Executing == { i \in Indices : TaskExecuting(tasks[i]) }
InResult(e) == \E k \in DOMAIN valid_proxies : valid_proxies[k] = e

\* C1: in cooperative mode the number of entries of pending_tasks is at most
\* async_validator_concurrency in every reachable state: after the initial fill,
\* after every harvest and top-up, after every stall recovery.
C1_InFlightWithinCeiling ==
    Cardinality(DOMAIN pending_tasks) <= async_validator_concurrency

\* C1 witness: the window is full again after a harvest has topped it up.
C1_Witness ==
    /\ pc = "wait"
    /\ completed_count > 0
    /\ Cardinality(DOMAIN pending_tasks) = async_validator_concurrency

\* C2: the probes executing at the same time never exceed the ceiling of the
\* active mode, a probe whose cancellation is requested counting until it has
\* ended: when admission has resumed after a stall no cancelled probe is still
\* executing, and no cooperative probe executes beside a worker-pool probe.
C2_ExecutingWithinCeiling ==
    /\ Cardinality(Executing) <= async_validator_concurrency
    /\ Cardinality(Running) <= validator_workers
    /\ Running # {} => Executing = {}
    /\ pc \in { "wait", "done", "sync_run" } => \A i \in Executing : ~tasks[i].must_cancel

\* C2 witness: after a stall recovery, newly admitted probes execute.
C2_Witness ==
    /\ stalled # {}
    /\ pc = "wait"
    /\ Executing # {}

\* C3: at the return of validate_proxies an endpoint is in the result if and
\* only if some probe of it returned usable=true with a latency <= max_response_time.
C3_ValidatedIffQualified ==
    pc = "done" =>
        \A e \in Endpoints : InResult(e) <=> (\E i \in qualified : proxies[i] = e)

\* C4: every element of the result is one of the candidate strings as it was
\* given, and the result has at most as many elements as there are candidates.
C4_ResultFromCandidates ==
    /\ \A k \in DOMAIN valid_proxies : \E i \in Indices : proxies[i] = valid_proxies[k]
    /\ Len(valid_proxies) <= total

\* C4 witness: every candidate was validated, one of them written without a
\* scheme (the one the cooperative probe rewrites for its request).
C4_Witness ==
    /\ pc = "done"
    /\ total >= 2
    /\ Len(valid_proxies) = total
    /\ InResult(<<"b:2">>)

\* C5: configured 'async' and without aiohttp, validate_proxies falls back: when
\* it returns, the fallback was taken and the worker pool has probed every candidate.
C5_FallbackWithoutAiohttp ==
    (pc = "done" /\ configured = "async" /\ ~aiohttp_available /\ total > 0) =>
        (fallback /\ \A i \in Indices : futures[i].st = "yielded")

\* C6: on a stall the loop requests the cancellation of every in-flight probe
\* and leaves the cursor alone; when it goes on, every one of them has ended and
\* is out of pending_tasks, admission has resumed at the cursor of the stall (the
\* first never-admitted index), and the run ends.
C6_StallRecovery ==
    /\ [][(pc = "wait" /\ pc' = "stall_gather") =>
            /\ \A t \in DOMAIN pending_tasks : tasks'[t].must_cancel
            /\ UNCHANGED << pending_tasks, next_proxy_index >>]_vars
    /\ [][(pc = "stall_gather" /\ pc' = "stall_gather") =>
            UNCHANGED << pending_tasks, next_proxy_index >>]_vars
    /\ [][(pc = "stall_gather" /\ pc' # "stall_gather") =>
            /\ \A t \in DOMAIN pending_tasks :
                   TaskDone(tasks'[t]) /\ t \notin DOMAIN pending_tasks'
            /\ DOMAIN pending_tasks' = (next_proxy_index + 1)..next_proxy_index'
            /\ \/ next_proxy_index' = total
               \/ Cardinality(DOMAIN pending_tasks') = async_validator_concurrency]_vars
    /\ (pc = "stall_gather" ~> pc = "done")

\* C6 witness: after a stall recovery, candidates that were never admitted
\* before are in flight.
C6_Witness ==
    /\ stalled # {}
    /\ DOMAIN pending_tasks # {}
    /\ DOMAIN pending_tasks \cap stalled = {}
    /\ \A t \in DOMAIN pending_tasks : \A c \in stalled : t > c

\* C7: an undisturbed cooperative run ends, and validate_proxies_async returns
\* only with the cursor exhausted, nothing in flight and completed_count = total.
C7_ReachesDone ==
    /\ [](pc = "done" =>
            /\ next_proxy_index = total
            /\ DOMAIN pending_tasks = {}
            /\ Executing = {}
            /\ completed_count = total)
    /\ <>(pc = "done")

\* C7 witness: a run of more candidates than the ceiling has returned, a stall
\* recovery and a validated endpoint behind it.
C7_Witness ==
    /\ pc = "done"
    /\ total > async_validator_concurrency
    /\ completed_count = total
    /\ stalled # {}
    /\ valid_proxies # << >>

\* C8: once an external interruption has left the engine, no probe is still
\* executing, in cooperative mode and in worker-pool mode.
C8_NoProbeAfterInterruption ==
    pc = "interrupted" => Executing = {} /\ Running = {} /\ Queued = {}

\* C8 witness: the interruption came while cooperative probes were in flight.
C8_Witness ==
    /\ pc = "interrupted"
    /\ DOMAIN pending_tasks # {}

\* C9: once signalled, an interruption only propagates: the run does not return
\* a result, does not fall back to worker-pool mode and does not go on
\* validating; when it leaves the engine no cooperative probe is executing.
C9_InterruptionPropagates ==
    [][(pc \in { "runner_cancel", "sync_shutdown", "interrupted" }) =>
            /\ pc' \in { pc, "interrupted" }
            /\ UNCHANGED << validation_method, fallback, valid_proxies >>
            /\ \/ pc' # "interrupted"
               \/ \A i \in Indices : ~TaskExecuting(tasks'[i])]_vars

\* C9 witness: an interrupted cooperative run that had validated an endpoint
\* and had probes not yet harvested.
C9_Witness ==
    /\ pc = "interrupted"
    /\ ~fallback
    /\ configured = "async"
    /\ valid_proxies # << >>
    /\ completed_count < total

\* C10: a probe that got a 200 within the deadline returns usable=true whatever
\* the body holds (test_proxy and both branches of test_proxy_async).
C10_SuccessStatusIsUsable ==
    (probe.st = "returned" /\ probe.resp.kind = "response" /\ probe.resp.status = 200) =>
        probe.result.is_valid

\* C11: a result a probe returns with usable=true carries a latency; a result
\* without a latency has usable=false (test_proxy and test_proxy_async, also
\* when the probe returns out of a cancellation).
C11_UsableHasLatency ==
    probe.st = "returned" =>
        /\ probe.result.is_valid => probe.result.response_time # None
        /\ probe.result.response_time = None => ~probe.result.is_valid

\* C11 witness: a cooperative probe of a SOCKS endpoint has returned usable,
\* with its latency.
C11_Witness ==
    /\ probe.st = "returned"
    /\ probe.fn = "test_proxy_async"
    /\ IsSocks(probe.proxy)
    /\ probe.result.is_valid
    /\ probe.result.response_time = Some(max_response_time)

\* C12: no exception leaves a probe (the CancelledError of a cancelled task
\* aside), and a probe whose request failed or got a status other than 200
\* returns usable=false.
C12_ProbeNeverThrows ==
    /\ probe.st = "raised" => probe.exc = "CancelledError"
    /\ (probe.st = "returned" /\ (probe.resp.kind # "response" \/ probe.resp.status # 200)) =>
           ~probe.result.is_valid

\* C13: a cooperative probe goes through the SOCKS transport exactly when the
\* scheme of its endpoint is of the SOCKS family (socks4, socks5, socks5h); the
\* other endpoints (http, https, no scheme) go through the HTTP transport.
C13_DispatchByScheme ==
    (probe.st = "returned" /\ probe.fn = "test_proxy_async") =>
        (probe.transport.via = "ProxyConnector" <=>
            (Len(probe.proxy) >= 2 /\ probe.proxy[1] \in { "socks4", "socks5", "socks5h" }))

\* C14: the result of validate_proxies holds no endpoint string twice, also when
\* the candidates hold the same endpoint several times.
C14_ResultIsSet ==
    pc = "done" =>
        \A j, k \in DOMAIN valid_proxies : j # k => valid_proxies[j] # valid_proxies[k]

\* C15: a cooperative run without a stall returns, as a set, exactly the
\* candidates whose probe returned usable with a latency <= max_response_time,
\* whatever the order in which the probes completed.
C15_NoStallResultIsQualified ==
    (pc = "done" /\ configured = "async" /\ ~fallback /\ stalled = {}) =>
        { valid_proxies[k] : k \in DOMAIN valid_proxies } = { proxies[i] : i \in qualified }

\* C16: without candidates validate_proxies goes from its call straight to its
\* return, in either mode: the result is empty, nothing was admitted or
\* submitted, no fallback was taken and nothing was raised.
C16_NoCandidates ==
    total = 0 =>
        /\ pc \in { "start", "done" }
        /\ pc = "start" => ENABLED (AsyncStart \/ SyncStart)
        /\ valid_proxies = << >>
        /\ DOMAIN pending_tasks = {} /\ next_proxy_index = 0 /\ completed_count = 0
        /\ completed = 0
        /\ ~fallback

\* C16 witness: the cooperative mode has returned from a call without
\* candidates, in an environment where the probes could not even be imported.
C16_Witness ==
    /\ total = 0
    /\ pc = "done"
    /\ configured = "async"
    /\ ~aiohttp_available

\* C17: called on the same candidates, the probe of each candidate answered the
\* same way and the cooperative probes able to run, the worker-pool mode returns
\* the same set of endpoints as the cooperative mode returned.
C17_ModesAgree ==
    (pc = "done" /\ coop_result # None /\ aiohttp_available) =>
        { valid_proxies[k] : k \in DOMAIN valid_proxies } =
            { coop_result[1][k] : k \in DOMAIN coop_result[1] }

\* C17 witness: both modes have returned, on candidates of which one was
\* validated and one, whose probe got a 200 without "origin", was not.
C17_Witness ==
    /\ pc = "done"
    /\ coop_result # None
    /\ aiohttp_available
    /\ valid_proxies # << >>
    /\ \E i \in Indices : outcome[i].kind = "response" /\ outcome[i].body = "object_without_origin"
                          /\ ~InResult(proxies[i])

\* C18: whenever the resolved counter of the running mode holds a value with
\* resolved mod interval = 0 or resolved = total, a status line was printed for
\* that value, also when a stall recovery brought the counter there.
C18_StatusLineForEveryReportingValue ==
    /\ (completed_count > 0 /\ StatusLine(completed_count, total)) => completed_count \in lines
    /\ (completed > 0 /\ StatusLine(completed, total)) => completed \in lines

\* C19: in a cooperative run the cursor never decreases; a step creates the
\* task of exactly the indices the cursor passes in it, none of which had a
\* task before; and no index gets a second task (one cancelled by a stall
\* recovery neither).
C19_AdmittedExactlyOnce ==
    [][/\ \A i \in Indices :
              (tasks[i].st = "idle" /\ tasks'[i].st # "idle") <=>
                  (next_proxy_index < i /\ i <= next_proxy_index')
       /\ \A i \in Indices : tasks'[i].st = "created" => tasks[i].st \in { "idle", "created" }
       /\ \A i \in Indices : tasks[i].st # "idle" => tasks'[i].st # "idle"
       /\ next_proxy_index' >= next_proxy_index]_vars

\* C19 witness: every candidate of the longest sequence was admitted, some
\* cancelled by a stall recovery, some harvested.
C19_Witness ==
    /\ pc = "done"
    /\ total = MaxCandidates
    /\ next_proxy_index = total
    /\ stalled # {}
    /\ \E i \in Indices : tasks[i].st = "harvested"

\* C20: in a cooperative run a probe cancelled by a stall recovery is never
\* harvested, whatever it ended with: it is counted once, by the recovery, and
\* only harvested probes are counted besides or add to the result.
C20_CancelledCountedOnceNeverValidated ==
    LET harvested == { i \in Indices : tasks[i].st = "harvested" }
    IN  /\ \A i \in stalled : tasks[i].st = "discarded"
        /\ completed_count = Cardinality(harvested) + Cardinality(stalled)
        /\ Len(valid_proxies) <= Cardinality(harvested)

\* C20 witness: a probe cancelled by a stall recovery swallowed the cancellation
\* and returned usable within the bound; the run has ended without its endpoint.
C20_Witness ==
    /\ pc = "done"
    /\ completed_count = total
    /\ \E i \in stalled \cap qualified : ~InResult(proxies[i])

\* C21: after the loop has requested the cancellation of the in-flight probes
\* it goes on to resume admission, also when a cancelled probe never ends.
C21_StallGatherBounded == (pc = "stall_gather") ~> (pc # "stall_gather")

\* C22: in a cooperative run the slots held of the limiter are those of the
\* probes that are between their acquire and their end, a probe whose
\* cancellation is requested included; when the gather of a stall recovery can
\* return every slot is free.
C22_SlotsHeldByExecutingProbes ==
    /\ (pc # "start" /\ total > 0) =>
            Capacity - semaphore = Cardinality({ i \in Indices : tasks[i].st = "probing" })
    /\ ENABLED StallRecover => semaphore = Capacity

\* C22 witness: the gather of a stall recovery can return, a cancelled probe
\* having ended by returning out of the cancellation, and every slot is free.
C22_Witness ==
    /\ pc = "stall_gather"
    /\ ENABLED StallRecover
    /\ \E i \in DOMAIN pending_tasks : tasks[i].st = "returned"
    /\ \E i \in DOMAIN pending_tasks : tasks[i].st = "cancelled"
    /\ semaphore = Capacity

\* C23: the loop cancels no probe that is within its own timeout: a probe whose
\* cancellation is requested has been running for longer than `timeout`, and
\* when a wait has lasted `timeout` every probe in flight has reached its own
\* timeout; so if every probe resolves within its timeout there is no stall,
\* and a timed-out probe is harvested as a completion.
C23_NoStallWithinProbeTimeout ==
    /\ \A i \in Indices : tasks[i].must_cancel => elapsed[i] > timeout
    /\ (pc = "wait" /\ waited >= timeout) =>
           \A i \in DOMAIN pending_tasks : TaskExecuting(tasks[i]) => elapsed[i] >= timeout

\* C23 witness: a probe has ended at its timeout, without a result, and waits
\* to be harvested; no stall has been declared.
C23_Witness ==
    /\ pc = "wait"
    /\ waited = timeout
    /\ stalled = {}
    /\ \E i \in DOMAIN pending_tasks :
           /\ tasks[i].st = "returned"
           /\ tasks[i].result = Result(FALSE, None)
           /\ elapsed[i] = timeout

\* C24: in worker-pool mode no update of the accumulator or of the counter is
\* lost under any interleaving of the workers: when validate_proxies returns,
\* the counter equals the number of candidates and the result holds every
\* candidate whose probe was usable within the latency bound.
C24_SyncNoLostUpdate ==
    (pc = "done" /\ validation_method = "sync") =>
        /\ completed = total
        /\ \A i \in qualified : InResult(proxies[i])

\* C25: the argument main gives validate_proxies holds no endpoint twice, also
\* when an endpoint of the data file is crawled again in the same run.
C25_HandedSequenceHasNoDuplicate ==
    main_pc = "validating" =>
        \A i, j \in Indices : proxies[i] = proxies[j] => i = j

\* C29: the effect of a run of main that returns. When nothing was crawled or
\* validate_proxies returned an empty list the data file is as it was loaded;
\* otherwise it holds exactly the endpoints of the validated result, each once,
\* so a stored endpoint that was not validated in this run is gone.
C29_EffectOnStoredList ==
    main_pc = "returned" =>
        IF new_proxies = << >> \/ valid_proxies = << >>
        THEN data_file = existing_proxies
        ELSE /\ Elements(data_file) = Elements(valid_proxies)
             /\ \A i, j \in DOMAIN data_file : data_file[i] = data_file[j] => i = j
C29_Witness ==
    /\ main_pc = "returned"
    /\ valid_proxies # << >>
    /\ data_file \in merge_proxies(valid_proxies, << >>)
    /\ \E e \in Elements(existing_proxies) : e \notin Elements(data_file)

\* C26: the bookkeeping of the cooperative loop. No step lowers the resolved
\* counter or takes it past the number of candidates, and whenever the loop is
\* about to wait, counter + number of tasks in pending_tasks = cursor <= total.
C26_Bookkeeping ==
    [][/\ completed_count <= completed_count'
       /\ completed_count' <= total
       /\ pc' = "wait" =>
              /\ completed_count' + Cardinality(DOMAIN pending_tasks') = next_proxy_index'
              /\ next_proxy_index' <= total]_vars
C26_Witness ==
    /\ pc = "wait"
    /\ stalled # {}
    /\ DOMAIN pending_tasks # {}
    /\ completed_count = Cardinality(stalled)
    /\ completed_count + Cardinality(DOMAIN pending_tasks) = next_proxy_index

\* C27: every probe a stall recovery cancels has been in flight for a full
\* stall window, a task admitted after a harvest included, because each wait
\* starts its own window and admits nothing; and no stall is declared while a
\* task of pending_tasks has completed.
C27_CancelledAfterFullWindow ==
    /\ \A i \in Indices : tasks[i].must_cancel => elapsed[i] >= StallWindow
    /\ (pc = "wait" /\ DoneTasks # {}) => ~ENABLED TimedStall
C27_Witness ==
    /\ pc = "stall_gather"
    /\ completed_count > 0
    /\ \E i \in DOMAIN pending_tasks : tasks[i].must_cancel /\ elapsed[i] = StallWindow

\* C28: when validate_proxies falls back after an exception of the cooperative
\* loop, no cooperative probe is executing any more and the worker pool starts
\* from nothing: every candidate queued, the counter 0, the result empty. What
\* is returned after a fallback comes from the worker-pool probes alone: each
\* entry of the result is the candidate of a worker-pool probe of its own that
\* was usable within the bound.
C28_FallbackStartsOver ==
    /\ [][(~fallback /\ fallback') =>
              /\ Executing = {}
              /\ Executing' = {}
              /\ valid_proxies' = << >>
              /\ completed' = 0
              /\ \A i \in Indices : futures'[i].st = "queued"]_vars
    /\ []((pc = "done" /\ fallback) =>
              /\ completed = total
              /\ \A i \in Indices : futures[i].st = "yielded"
              /\ \E f \in [DOMAIN valid_proxies -> qualified] :
                     /\ \A k \in DOMAIN valid_proxies : proxies[f[k]] = valid_proxies[k]
                     /\ \A k, l \in DOMAIN valid_proxies : f[k] = f[l] => k = l)
C28_Witness ==
    /\ pc = "done"
    /\ fallback
    /\ total > async_validator_concurrency
    /\ valid_proxies # << >>
    /\ Len(valid_proxies) < total

\* C30: in cooperative mode the acquire of a probe never suspends: while the
\* event loop runs, the limiter has a free slot for every task that is created
\* and has not started, also right after a stall recovery has re-admitted.
C30_AcquireNeverSuspends ==
    (LoopRunning /\ aiohttp_available) =>
        Cardinality({ i \in Indices : tasks[i].st = "created" /\ ~tasks[i].must_cancel })
            <= semaphore
C30_Witness ==
    /\ pc = "wait"
    /\ aiohttp_available
    /\ stalled # {}
    /\ \E i \in DOMAIN pending_tasks : tasks[i].st = "created"
    /\ semaphore = Capacity

============================================================================
